---- MODULE Spec2Model ----
(***************************************************************************)
(* Model of DFTTK-datasets/dfttktojson.py: the two functions               *)
(* update_metadata and dfttk_writeto_json, run against a MongoDB           *)
(* collection of calculation records.                                      *)
(*                                                                         *)
(* The external libraries are modelled by what the script relies on:       *)
(*   - find_one returns the first record of the collection that matches,   *)
(*     or None; find iterates the matching records in collection order;    *)
(*   - get_thermal_props(record) yields the arrays 'T', 'HM', 'SM', 'CPM'  *)
(*     of the record, all of the record's grid length;                     *)
(*   - get_formation_energy subtracts the composition-weighted reference   *)
(*     arrays from the record's array and then takes index idx, or every   *)
(*     thin-th entry;                                                      *)
(*   - make_dataset returns a dataset determined by its arguments;         *)
(*   - np.array of rows of unequal length raises ValueError.               *)
(* Python values are 0-indexed, the sequences here 1-indexed.              *)
(***************************************************************************)
EXTENDS Integers, Sequences, FiniteSets, TLC

\* ---------------------------------------------------------------- bounds
MaxDocs == 3          \* records in the collection
ShortGrid == 12       \* length of the short temperature grid
LongGrid == 31        \* length of the long temperature grid

\* ------------------------------------------------------ program constants
Pressure == 101325    \* 'P' of fixed_conds and temp_conds
ThinStep == 10        \* thin=10 and [::10]
DropTail == 2         \* [:-2]

\* ------------------------------------------------------------ data pools
Elements == {"al", "ni"}
ConfAl == << <<"al">> >>
ConfNiAl == << <<"ni", "al">>, <<"al">> >>
Configurations == {ConfAl, ConfNiAl}
PhaseNames == {"FCC", "L12"}
SiteRatios == <<3, 1>>

\* np.ndarray.tolist on a 0-d or 1-d array of numbers: the same numbers as a
\* Python scalar or list.
Grid(L, t0) == [i \in 1..L |-> t0 + 10 * (i - 1)]

\* A record of the collection: metadata (tag, phase_name, sublattice), the
\* structure, and the quasiharmonic results get_thermal_props reads.
MkDoc(id, tag, phase, conf, occ, sconf, socc, comp, L, t0, h) ==
  [id |-> id,
   metadata |-> [tag |-> tag, phase_name |-> phase,
                 sublattice |-> [configuration |-> conf, occupancies |-> occ]],
   structure |-> [composition |-> comp,
                  sublattice_configuration |-> sconf,
                  sublattice_occupancies |-> socc,
                  sublattice_site_ratios |-> <<Len(sconf), 1>>],
   qha |-> [T |-> Grid(L, t0),
            HM |-> [i \in 1..L |-> h + 3 * i],
            SM |-> [i \in 1..L |-> 2 * h + i],
            CPM |-> [i \in 1..L |-> h + i * i]]]

CompAl == [e \in Elements |-> IF e = "al" THEN 1 ELSE 0]
CompNi == [e \in Elements |-> IF e = "ni" THEN 1 ELSE 0]
CompNiAl == [e \in Elements |-> IF e = "ni" THEN 3 ELSE 1]

DocIds == 1..7

Doc(id) ==
  CASE id = 1 -> MkDoc(1, "ref_al", "FCC", ConfAl, <<<<10>>>>, ConfAl, <<<<10>>>>,
                       CompAl, LongGrid, 0, 100)
    [] id = 2 -> MkDoc(2, "ref_ni", "FCC", ConfNiAl, <<<<5, 5>>, <<10>>>>,
                       << <<"ni">> >>, <<<<10>>>>, CompNi, LongGrid, 0, 200)
    [] id = 3 -> MkDoc(3, "cfg", "L12", ConfNiAl, <<<<9, 1>>, <<10>>>>,
                       << <<"ni">>, <<"al">> >>, <<<<10>>, <<10>>>>,
                       CompNiAl, LongGrid, 0, 50)
    [] id = 4 -> MkDoc(4, "cfg", "L12", ConfAl, <<<<10>>>>, ConfAl, <<<<7>>>>,
                       CompAl, LongGrid, 5, 70)
    [] id = 5 -> MkDoc(5, "cfg5", "L12", ConfAl, <<<<8>>>>, ConfNiAl,
                       <<<<2, 8>>, <<10>>>>, CompAl, ShortGrid, 0, 90)
    [] id = 6 -> MkDoc(6, "ref_al", "L12", ConfAl, <<<<6>>>>, ConfAl, <<<<6>>>>,
                       CompAl, LongGrid, 0, 110)
    [] OTHER  -> MkDoc(7, "ref_al", "L12", ConfAl, <<<<4>>>>, ConfAl, <<<<4>>>>,
                       CompAl, ShortGrid, 300, 130)

Tags == {Doc(i).metadata.tag : i \in DocIds} \cup {"missing"}

RECURSIVE SeqsNoDup(_)
SeqsNoDup(n) ==
  IF n = 0 THEN {<<>>}
  ELSE LET shorter == SeqsNoDup(n - 1)
       IN shorter \cup
          {Append(s, d) : s \in {t \in shorter : Len(t) = n - 1},
                          d \in DocIds}

Range(s) == {s[i] : i \in 1..Len(s)}
Collections == {s \in SeqsNoDup(MaxDocs) : Cardinality(Range(s)) = Len(s)}

\* ------------------------------------------------------- library helpers
Min(S) == CHOOSE x \in S : \A y \in S : x <= y

Max(S) == CHOOSE x \in S : \A y \in S : x >= y

\* The last matching record in place of the first.
find_one_Last(c, t) ==
  LET m == {i \in 1..Len(c) : Doc(c[i]).metadata.tag = t}
  IN IF m = {} THEN <<>> ELSE <<Doc(c[Max(m)])>>

\* coll.find_one({'metadata.tag': t}): the first matching record, or None
\* (the empty sequence).
find_one(c, t) ==
  LET m == {i \in 1..Len(c) : Doc(c[i]).metadata.tag = t}
  IN IF m = {} THEN <<>> ELSE <<Doc(c[Min(m)])>>

\* A query on the configuration alone.
find_ConfigurationOnly(c, conf, phase) ==
  LET Match(id) == Doc(id).metadata.sublattice.configuration = conf
  IN SelectSeq(c, Match)

\* coll.find({configuration, phase_name}): the matching records in collection
\* order.
find(c, conf, phase) ==
  LET Match(id) == /\ Doc(id).metadata.sublattice.configuration = conf
                   /\ Doc(id).metadata.phase_name = phase
  IN SelectSeq(c, Match)

get_thermal_props(doc) == doc.qha

\* PRLStructure.from_structure(Structure.from_dict(record['structure'])).
from_structure(structure) ==
  [sublattice_configuration |-> structure.sublattice_configuration,
   sublattice_occupancies |-> structure.sublattice_occupancies,
   sublattice_site_ratios |-> structure.sublattice_site_ratios]

RECURSIVE SumOver(_, _)
SumOver(S, f) ==
  IF S = {} THEN 0
  ELSE LET x == CHOOSE y \in S : TRUE IN f[x] + SumOver(S \ {x}, f)

StructElements(struct) == {e \in Elements : struct.composition[e] > 0}

\* get_formation_energy raises KeyError for an element of the structure that
\* has no reference state and ValueError when the reference arrays and the
\* record's arrays differ in length.
FormationDefined(tprops, struct, refs) ==
  /\ StructElements(struct) \subseteq DOMAIN refs
  /\ \A e \in StructElements(struct) : Len(refs[e].T) = Len(tprops.T)

\* The formation property over the whole temperature grid.
FormationArray(tprops, struct, refs, prop) ==
  [i \in 1..Len(tprops[prop]) |->
     tprops[prop][i]
       - SumOver(StructElements(struct),
                 [e \in StructElements(struct) |->
                    struct.composition[e] * refs[e][prop][i]])]

\* Every k-th entry of the full blocks of k only.
Thin_Floor(s, k) == [i \in 1..(Len(s) \div k) |-> s[(i - 1) * k + 1]]

\* s[::k]
Thin(s, k) == [i \in 1..((Len(s) + k - 1) \div k) |-> s[(i - 1) * k + 1]]

\* s[:-n]
DropLast(s, n) == IF Len(s) <= n THEN <<>> ELSE SubSeq(s, 1, Len(s) - n)

\* get_formation_energy(tprops, struct, refs, prop, idx=idx), idx 0-based.
get_formation_energy_idx(tprops, struct, refs, prop, idx) ==
  FormationArray(tprops, struct, refs, prop)[idx + 1]

\* get_formation_energy(tprops, struct, refs, prop, thin=k)
get_formation_energy_thin(tprops, struct, refs, prop, k) ==
  Thin(FormationArray(tprops, struct, refs, prop), k)

\* ------------------------------------------------------------ call inputs
\* refstate_tags: a dict, given as its (element, tag) items in insertion order.
RefstateTagsPool ==
  { <<>>,
    << <<"al", "ref_al">> >>,
    << <<"ni", "ref_ni">>, <<"al", "ref_al">> >>,
    << <<"al", "missing">> >> }

\* temperature_index, 0-based: in range for every grid, or only for the long.
TemperatureIndexes == {1, ShortGrid}

\* writefile: Python objects, by their repr.
WritefileValues == {"True", "False", "1"}

\* A truthiness test in place of the identity test.
IsTrue_Truthy(w) == w \in {"True", "1"}

\* `writefile is True`: identity with the singleton True.
IsTrue(w) == w = "True"

Props == <<"HM_FORM", "SM_FORM", "CPM_FORM">>

NoArgs == [phase_name |-> "", refstate_tags |-> <<>>,
           configuration_to_find |-> <<>>, sublattice_site_ratios |-> <<>>,
           temperature_index |-> 0, writefile |-> "True"]

\* recursive_flatten of a list of lists of strings.
RECURSIVE recursive_flatten(_)
recursive_flatten(conf) ==
  IF conf = <<>> THEN <<>> ELSE Head(conf) \o recursive_flatten(Tail(conf))

\* The order of Python's string comparison on the species names in use.
StrRank(x) == CASE x = "al" -> 1 [] x = "ni" -> 2 [] OTHER -> 3

RECURSIVE Insert(_, _)
Insert(x, s) ==
  IF s = <<>> THEN <<x>>
  ELSE IF StrRank(x) < StrRank(Head(s)) THEN <<x>> \o s
  ELSE <<Head(s)>> \o Insert(x, Tail(s))

RECURSIVE sorted(_)
sorted(s) == IF s = <<>> THEN <<>> ELSE Insert(Head(s), sorted(Tail(s)))

\* str.upper on the species names in use.
upper(x) == CASE x = "al" -> "AL" [] x = "ni" -> "NI" [] OTHER -> x

\* make_dataset(phase_name, prop, sublattice_site_ratios, configs, conds, vals,
\*              occupancies=occupancies, tag=tag): the dataset for one property.
make_dataset(phase_name, prop, ratios, cfgs, conds, vals, occs, t) ==
  [phases |-> <<phase_name>>, output |-> prop, conditions |-> conds,
   values |-> vals.data,
   solver |-> [sublattice_site_ratios |-> ratios,
               sublattice_configurations |-> cfgs,
               sublattice_occupancies |-> occs],
   tag |-> t]

\* '{}-{}-{}-DFTTK.json'.format('-'.join(comps), phase_name, prop), as the
\* parts that the dashes join.
FileName(cs, phase_name, prop) == cs \o <<phase_name, prop, "DFTTK.json">>

\* np.array(rows).T[np.newaxis, ...] for n rows of equal length m: shape
\* (1, m, n); for no rows at all np.array([]) is 1-d and the shape is (1, 0).
TransposeNewaxis(rows) ==
  LET n == Len(rows)
  IN IF n = 0
     THEN [shape |-> <<1, 0>>, data |-> << <<>> >>]
     ELSE [shape |-> <<1, Len(rows[1]), n>>,
           data |-> << [j \in 1..Len(rows[1]) |->
                          [i \in 1..n |-> rows[i][j]]] >>]

\* np.array([[values]]) for a list of n scalars: shape (1, 1, n).
WrapTwice(values) == [shape |-> <<1, 1, Len(values)>>, data |-> << <<values>> >>]

Ragged(rows) == \E i, j \in 1..Len(rows) : Len(rows[i]) # Len(rows[j])

\* ------------------------------------------------------------------ state
VARIABLES
  coll,               \* vasp_db.db[collection]: the records, in natural order
  pc,                 \* position of the call in progress
  um_call,            \* arguments of the update_metadata call, if any
  um_ret,             \* value returned by update_metadata, if any
  args,               \* arguments of the dfttk_writeto_json call
  refstate_energies,  \* element -> thermal properties of its reference state
  ref_items,          \* items of refstate_tags not yet iterated
  tag,                \* loop variable of the reference-state loop
  bound,              \* names among tag, fixed_temp, cpm_temps assigned so far
  cursor,             \* matched records not yet iterated
  configs, occupancies, hm_values, sm_values, cpm_values,
  fixed_temp, cpm_temps, fixed_conds, temp_conds,
  comps,
  prop_pos,           \* position of the dataset loop in its list
  prop,               \* loop variable of the dataset loop
  ds,                 \* the dataset last built, if any
  files,              \* files of the working directory: name and content
  ret                 \* value returned by dfttk_writeto_json, if any

callVars == <<um_call, um_ret, args>>
refVars == <<refstate_energies, ref_items, tag>>
listVars == <<configs, occupancies, hm_values, sm_values, cpm_values>>
tempVars == <<fixed_temp, cpm_temps>>
condVars == <<fixed_conds, temp_conds>>
outVars == <<comps, prop_pos, prop, ds, files, ret>>

vars == <<coll, pc, um_call, um_ret, args, refstate_energies, ref_items, tag,
          bound, cursor, configs, occupancies, hm_values, sm_values,
          cpm_values, fixed_temp, cpm_temps, fixed_conds, temp_conds, comps,
          prop_pos, prop, ds, files, ret>>

Init ==
  /\ coll \in Collections
  /\ pc = "idle"
  /\ um_call = <<>>
  /\ um_ret = <<>>
  /\ args = NoArgs
  /\ refstate_energies = <<>>
  /\ ref_items = <<>>
  /\ tag = ""
  /\ bound = {}
  /\ cursor = <<>>
  /\ configs = <<>>
  /\ occupancies = <<>>
  /\ hm_values = <<>>
  /\ sm_values = <<>>
  /\ cpm_values = <<>>
  /\ fixed_temp = 0
  /\ cpm_temps = <<>>
  /\ fixed_conds = [P |-> 0, T |-> 0]
  /\ temp_conds = [P |-> 0, T |-> 0]
  /\ comps = <<>>
  /\ prop_pos = 0
  /\ prop = ""
  /\ ds = <<>>
  /\ files = {}
  /\ ret = <<>>

\* Locals that are never unbound, as if initialised before the loops.
Unbound_Never(name) == FALSE

\* Reading a local name that no assignment has bound raises
\* UnboundLocalError.
Unbound(name) == name \notin bound

\* -------------------------------------------------------- update_metadata
\* The whole of update_metadata: find_one by tag, derive the sublattice
\* information from the record's structure, build the dict.  With no record
\* of that tag, tag_results is None and subscripting it raises TypeError.
UpdateMetadataDict_FromMetadata(phase_name, metadata_tag, tag_results) ==
  [phase_name |-> phase_name,
   tag |-> metadata_tag,
   sublattice |-> [configuration |-> tag_results.metadata.sublattice.configuration,
                   occupancies |-> tag_results.metadata.sublattice.occupancies]]

UpdateMetadataDict(phase_name, metadata_tag, tag_results) ==
  LET ps == from_structure(tag_results.structure)
      subl_configuration == ps.sublattice_configuration
      subl_occ == ps.sublattice_occupancies
  IN [phase_name |-> phase_name,
      tag |-> metadata_tag,
      sublattice |-> [configuration |-> subl_configuration,
                      occupancies |-> subl_occ]]

update_metadata(phase_name, metadata_tag) ==
  /\ pc = "idle"
  /\ um_call' = <<[phase_name |-> phase_name, metadata_tag |-> metadata_tag]>>
  /\ LET tag_results == find_one(coll, metadata_tag)
     IN IF tag_results = <<>>
        THEN /\ pc' = "um_error"
             /\ um_ret' = um_ret
        ELSE /\ pc' = "um_done"
             /\ um_ret' = <<UpdateMetadataDict(phase_name, metadata_tag,
                                               tag_results[1])>>
  /\ UNCHANGED <<coll, args, refVars, bound, cursor, listVars, tempVars,
                 condVars, outVars>>

\* ----------------------------------------------------- dfttk_writeto_json
\* Lines 79-81: the call starts; refstate_energies = {}.
Start(phase_name, refstate_tags, configuration_to_find, temperature_index, writefile) ==
  /\ pc = "idle"
  /\ args' = [phase_name |-> phase_name, refstate_tags |-> refstate_tags,
              configuration_to_find |-> configuration_to_find,
              sublattice_site_ratios |-> SiteRatios,
              temperature_index |-> temperature_index,
              writefile |-> writefile]
  /\ refstate_energies' = <<>>
  /\ ref_items' = refstate_tags
  /\ pc' = "refs"
  /\ UNCHANGED <<coll, um_call, um_ret, tag, bound, cursor, listVars,
                 tempVars, condVars, outVars>>

\* Lines 82-84: one iteration of the reference-state loop.  find_one gives
\* None for a tag no record has, and get_thermal_props(None) raises.
RefIter ==
  /\ pc = "refs"
  /\ ref_items # <<>>
  /\ LET el == Head(ref_items)[1]
         t == Head(ref_items)[2]
         qha_result == find_one(coll, t)
     IN /\ tag' = t
        /\ bound' = bound \cup {"tag"}
        /\ ref_items' = Tail(ref_items)
        /\ IF qha_result = <<>>
           THEN /\ pc' = "error"
                /\ refstate_energies' = refstate_energies
           ELSE /\ pc' = pc
                /\ refstate_energies' =
                     [e \in DOMAIN refstate_energies \cup {el} |->
                        IF e = el THEN get_thermal_props(qha_result[1])
                        ELSE refstate_energies[e]]
  /\ UNCHANGED <<coll, callVars, cursor, listVars, tempVars, condVars,
                 outVars>>

\* Lines 85-92: the reference-state loop is over; the lists and the
\* conditions are initialised and the query for the records is issued.
RefExit ==
  /\ pc = "refs"
  /\ ref_items = <<>>
  /\ configs' = <<>>
  /\ occupancies' = <<>>
  /\ hm_values' = <<>>
  /\ sm_values' = <<>>
  /\ cpm_values' = <<>>
  /\ fixed_conds' = [P |-> Pressure, T |-> 0]
  /\ temp_conds' = [P |-> Pressure, T |-> 0]
  /\ cursor' = find(coll, args.configuration_to_find, args.phase_name)
  /\ pc' = "records"
  /\ UNCHANGED <<coll, callVars, refVars, bound, tempVars, outVars>>

\* Lines 93-104: one iteration of the record loop.  configs and occupancies
\* are appended before the formation energies are computed; the first
\* get_formation_energy raises KeyError, ValueError or IndexError.
RecIter ==
  /\ pc = "records"
  /\ cursor # <<>>
  /\ LET qha_res == Doc(Head(cursor))
         tprops == get_thermal_props(qha_res)
         struct == qha_res.structure
         idx == args.temperature_index
     IN /\ configs' = Append(configs, qha_res.metadata.sublattice.configuration)
        /\ occupancies' =
             Append(occupancies, qha_res.metadata.sublattice.occupancies)
        /\ IF /\ FormationDefined(tprops, struct, refstate_energies)
              /\ idx < Len(tprops.T)
           THEN /\ hm_values' =
                     Append(hm_values,
                            get_formation_energy_idx(tprops, struct,
                                                     refstate_energies, "HM", idx))
                /\ sm_values' =
                     Append(sm_values,
                            get_formation_energy_idx(tprops, struct,
                                                     refstate_energies, "SM", idx))
                /\ cpm_values' =
                     Append(cpm_values,
                            DropLast(get_formation_energy_thin(
                                       tprops, struct, refstate_energies,
                                       "CPM", ThinStep), DropTail))
                /\ fixed_temp' = tprops.T[idx + 1]
                /\ cpm_temps' = DropLast(Thin(tprops.T, ThinStep), DropTail)
                /\ bound' = bound \cup {"fixed_temp", "cpm_temps"}
                /\ cursor' = Tail(cursor)
                /\ pc' = pc
           ELSE /\ pc' = "error"
                /\ UNCHANGED <<hm_values, sm_values, cpm_values, tempVars,
                               bound, cursor>>
  /\ UNCHANGED <<coll, callVars, refVars, condVars, outVars>>

\* Lines 105-113: the record loop is over.  fixed_temp is unbound when no
\* record was iterated; np.array raises on CPM rows of unequal length, after
\* the conditions and the HM and SM arrays were set.
RecExit ==
  /\ pc = "records"
  /\ cursor = <<>>
  /\ IF Unbound("fixed_temp")
     THEN /\ pc' = "error"
          /\ UNCHANGED <<condVars, listVars, comps, prop_pos>>
     ELSE /\ fixed_conds' = [fixed_conds EXCEPT !.T = fixed_temp]
          /\ temp_conds' = [temp_conds EXCEPT !.T = cpm_temps]
          /\ hm_values' = WrapTwice(hm_values)
          /\ sm_values' = WrapTwice(sm_values)
          /\ UNCHANGED <<configs, occupancies>>
          /\ IF Ragged(cpm_values)
             THEN /\ pc' = "error"
                  /\ UNCHANGED <<cpm_values, comps, prop_pos>>
             ELSE /\ cpm_values' = TransposeNewaxis(cpm_values)
                  /\ comps' =
                       LET s == sorted(recursive_flatten(
                                         args.configuration_to_find))
                       IN [i \in 1..Len(s) |-> upper(s[i])]
                  /\ prop_pos' = 1
                  /\ pc' = "datasets"
  /\ UNCHANGED <<coll, callVars, refVars, bound, cursor, tempVars, prop, ds,
                 files, ret>>

\* The tag of the first reference state in place of the loop variable.
DatasetFor_FirstTag(pos) ==
  LET vals == CASE pos = 1 -> hm_values
                [] pos = 2 -> sm_values
                [] OTHER -> cpm_values
      conds == IF pos = 3 THEN temp_conds ELSE fixed_conds
  IN make_dataset(args.phase_name, Props[pos], args.sublattice_site_ratios,
                  configs, conds, vals, occupancies,
                  args.refstate_tags[1][2])

\* Line 115: the make_dataset call of the iteration at position pos of
\* [('HM_FORM', hm_values, fixed_conds), ('SM_FORM', sm_values, fixed_conds),
\*  ('CPM_FORM', cpm_values, temp_conds)].
DatasetFor(pos) ==
  LET vals == CASE pos = 1 -> hm_values
                [] pos = 2 -> sm_values
                [] OTHER -> cpm_values
      conds == IF pos = 3 THEN temp_conds ELSE fixed_conds
  IN make_dataset(args.phase_name, Props[pos], args.sublattice_site_ratios,
                  configs, conds, vals, occupancies, tag)

\* Lines 114-115: one iteration of the dataset loop; ds is rebound each time.
\* tag is unbound when refstate_tags was empty.
MakeDataset ==
  /\ pc = "datasets"
  /\ prop_pos <= Len(Props)
  /\ prop' = Props[prop_pos]
  /\ IF Unbound("tag")
     THEN /\ pc' = "error"
          /\ UNCHANGED <<ds, prop_pos>>
     ELSE /\ ds' = <<DatasetFor(prop_pos)>>
          /\ prop_pos' = prop_pos + 1
          /\ pc' = pc
  /\ UNCHANGED <<coll, callVars, refVars, bound, cursor, listVars, tempVars,
                 condVars, comps, files, ret>>

\* Lines 116-120: after the dataset loop, the last ds is written to the file
\* named after the last prop, or returned.
Output ==
  /\ pc = "datasets"
  /\ prop_pos > Len(Props)
  /\ IF IsTrue(args.writefile)
     THEN LET name == FileName(comps, args.phase_name, prop)
          IN /\ files' = {f \in files : f.name # name}
                           \cup {[name |-> name, content |-> ds[1]]}
             /\ ret' = ret
     ELSE /\ ret' = ds
          /\ files' = files
  /\ pc' = "done"
  /\ UNCHANGED <<coll, callVars, refVars, bound, cursor, listVars, tempVars,
                 condVars, comps, prop_pos, prop, ds>>

Next ==
  \/ \E phase_name \in PhaseNames, metadata_tag \in Tags :
       update_metadata(phase_name, metadata_tag)
  \/ \E phase_name \in PhaseNames, refstate_tags \in RefstateTagsPool,
        configuration_to_find \in Configurations,
        temperature_index \in TemperatureIndexes,
        writefile \in WritefileValues :
       Start(phase_name, refstate_tags, configuration_to_find,
             temperature_index, writefile)
  \/ RefIter
  \/ RefExit
  \/ RecIter
  \/ RecExit
  \/ MakeDataset
  \/ Output

Spec == Init /\ [][Next]_vars

\* ----------------------------------------------------------------- claims
Started == pc \in {"refs", "records", "datasets", "done", "error"}

\* The records of the collection that satisfy both conditions of the query,
\* as positions of the collection in increasing order.
MatchPositions ==
  {i \in 1..Len(coll) :
     /\ Doc(coll[i]).metadata.sublattice.configuration
          = args.configuration_to_find
     /\ Doc(coll[i]).metadata.phase_name = args.phase_name}

\* The datasets a finished call has put out: file contents and return value.
Outputs == {f.content : f \in files} \cup Range(ret)

\* C1: a finished call with matching records puts out the results of all
\* three properties, HM_FORM, SM_FORM and CPM_FORM.
C1_AllThreeProperties ==
  (pc = "done" /\ MatchPositions # {}) =>
     \A p \in Range(Props) : \E o \in Outputs : o.output = p

\* C2 as stated: whenever the call has ended, a file was written exactly
\* when writefile is True (one file, nothing returned), and otherwise no
\* file exists and the dataset was returned.
C2_WriteIffTrue ==
  pc \in {"done", "error"} =>
     IF args.writefile = "True"
     THEN Cardinality(files) = 1 /\ ret = <<>>
     ELSE files = {} /\ ret # <<>>

\* C2 amended: a call that completes has written exactly one file and
\* returned nothing when writefile is True, and has written no file and
\* returned the dataset for any other writefile; a call that has not
\* completed, or has failed, has written no file and returned nothing.
C2_WriteIffTrueOnCompletion ==
  /\ pc = "done" =>
       IF args.writefile = "True"
       THEN Cardinality(files) = 1 /\ ret = <<>>
       ELSE files = {} /\ ret # <<>> /\ ret = ds
  /\ pc # "done" => files = {} /\ ret = <<>>

C2_Witness ==
  /\ pc = "done"
  /\ args.writefile = "1"
  /\ files = {}
  /\ ret # <<>>

\* C3: when a record with the tag exists, update_metadata returns
\* phase_name, tag and a sublattice entry of exactly the configuration and
\* occupancies derived from the structure of the (first) record of that tag.
C3_UpdateMetadataResult ==
  (um_call # <<>> /\
   \E i \in 1..Len(coll) : Doc(coll[i]).metadata.tag = um_call[1].metadata_tag)
  =>
   /\ pc = "um_done"
   /\ um_ret # <<>>
   /\ \E i \in 1..Len(coll) :
        /\ Doc(coll[i]).metadata.tag = um_call[1].metadata_tag
        /\ \A j \in 1..(i - 1) :
             Doc(coll[j]).metadata.tag # um_call[1].metadata_tag
        /\ um_ret[1].phase_name = um_call[1].phase_name
        /\ um_ret[1].tag = um_call[1].metadata_tag
        /\ DOMAIN um_ret[1] = {"phase_name", "tag", "sublattice"}
        /\ DOMAIN um_ret[1].sublattice = {"configuration", "occupancies"}
        /\ um_ret[1].sublattice.configuration
             = Doc(coll[i]).structure.sublattice_configuration
        /\ um_ret[1].sublattice.occupancies
             = Doc(coll[i]).structure.sublattice_occupancies

C3_Witness ==
  /\ pc = "um_done"
  /\ um_ret # <<>>
  /\ um_ret[1].tag = "cfg5"
  /\ um_ret[1].sublattice.configuration = ConfNiAl

\* The i-th matched record, in collection order.
RECURSIVE NthOf(_, _)
NthOf(S, i) == IF i = 1 THEN Min(S) ELSE NthOf(S \ {Min(S)}, i - 1)

MatchedDoc(i) == Doc(coll[NthOf(MatchPositions, i)])

NumMatched == Cardinality(MatchPositions)

\* The first record of the collection with the given tag.
IsFirstWithTag(i, t) ==
  /\ i \in 1..Len(coll)
  /\ Doc(coll[i]).metadata.tag = t
  /\ \A j \in 1..(i - 1) : Doc(coll[j]).metadata.tag # t

\* Formation value of a record at one 0-based grid index, from the
\* baselines in refstate_energies.
ExpectedForm(d, p, idx) ==
  d.qha[p][idx + 1]
    - SumOver(StructElements(d.structure),
              [e \in StructElements(d.structure) |->
                 d.structure.composition[e] * refstate_energies[e][p][idx + 1]])

\* C4: between iterations of the record loop the five lists have one common
\* length k, entry i of each comes from the i-th record that matches both
\* the configuration and the phase name, the records still to come are the
\* remaining matches, and once the loop is over every match has contributed
\* exactly once.
C4_ListsAligned ==
  /\ pc = "records" =>
       LET k == Len(configs)
       IN /\ Len(occupancies) = k
          /\ Len(hm_values) = k
          /\ Len(sm_values) = k
          /\ Len(cpm_values) = k
          /\ k + Len(cursor) = NumMatched
          /\ \A i \in 1..Len(cursor) : Doc(cursor[i]) = MatchedDoc(k + i)
          /\ \A i \in 1..k :
               LET d == MatchedDoc(i)
               IN /\ configs[i] = d.metadata.sublattice.configuration
                  /\ occupancies[i] = d.metadata.sublattice.occupancies
                  /\ hm_values[i]
                       = ExpectedForm(d, "HM", args.temperature_index)
                  /\ sm_values[i]
                       = ExpectedForm(d, "SM", args.temperature_index)
                  /\ \A j \in 1..Len(cpm_values[i]) :
                       cpm_values[i][j]
                         = ExpectedForm(d, "CPM", (j - 1) * ThinStep)
  /\ pc \in {"datasets", "done"} =>
       /\ Len(configs) = NumMatched
       /\ Len(occupancies) = NumMatched
       /\ hm_values.shape[3] = NumMatched
       /\ sm_values.shape[3] = NumMatched
       /\ \A i \in 1..NumMatched :
            /\ configs[i] = MatchedDoc(i).metadata.sublattice.configuration
            /\ occupancies[i] = MatchedDoc(i).metadata.sublattice.occupancies

C4_Witness ==
  /\ pc = "records"
  /\ Len(configs) = 2
  /\ hm_values[1] # hm_values[2]
  /\ cursor = <<>>
  /\ Len(coll) > NumMatched

\* C5: when the first record is about to be processed, and from then on,
\* refstate_energies holds a baseline for exactly the element keys of
\* refstate_tags, each from the first record carrying the element's tag; no
\* formation energy exists while the reference-state loop runs, and each
\* value computed since was computed from these same baselines.
C5_BaselinesComplete ==
  /\ pc = "refs" => hm_values = <<>> /\ sm_values = <<>> /\ cpm_values = <<>>
  /\ pc \in {"records", "datasets", "done"} =>
       /\ DOMAIN refstate_energies
            = {args.refstate_tags[n][1] : n \in 1..Len(args.refstate_tags)}
       /\ \A n \in 1..Len(args.refstate_tags) :
            \E i \in 1..Len(coll) :
              /\ IsFirstWithTag(i, args.refstate_tags[n][2])
              /\ refstate_energies[args.refstate_tags[n][1]] = Doc(coll[i]).qha
  /\ pc = "records" =>
       \A i \in 1..Len(hm_values) :
          /\ hm_values[i]
               = ExpectedForm(MatchedDoc(i), "HM", args.temperature_index)
          /\ sm_values[i]
               = ExpectedForm(MatchedDoc(i), "SM", args.temperature_index)

C5_Witness ==
  /\ pc = "records"
  /\ Len(args.refstate_tags) = 2
  /\ Len(hm_values) = 1
  /\ DOMAIN refstate_energies = {"al", "ni"}

\* C6: once the conditions are set, the 'T' of fixed_conds is every matched
\* record's own temperature at temperature_index, and the 'T' of temp_conds
\* is every matched record's own thinned temperature grid.
C6_TemperatureOfEveryRecord ==
  pc \in {"datasets", "done"} =>
     \A i \in 1..NumMatched :
        LET T == MatchedDoc(i).qha.T
        IN /\ fixed_conds.T = T[args.temperature_index + 1]
           /\ \A j \in 1..Len(temp_conds.T) :
                temp_conds.T[j] = T[(j - 1) * ThinStep + 1]

\* ceil(L / 10) - 2, not below 0.
ThinnedLength(L) ==
  LET c == IF L % ThinStep = 0 THEN L \div ThinStep ELSE L \div ThinStep + 1
  IN IF c - DropTail > 0 THEN c - DropTail ELSE 0

\* C7: with N matched records of one common grid length L, the HM and SM
\* arrays have shape (1, 1, N), the CPM array has shape (1, M, N) and the
\* 'T' list of the CPM conditions has length M = max(0, ceil(L/10) - 2).
C7_Shapes ==
  (pc \in {"datasets", "done"} /\
   \A i \in 1..NumMatched :
      Len(MatchedDoc(i).qha.T) = Len(MatchedDoc(1).qha.T))
  =>
   LET N == NumMatched
       M == ThinnedLength(Len(MatchedDoc(1).qha.T))
   IN /\ hm_values.shape = <<1, 1, N>>
      /\ sm_values.shape = <<1, 1, N>>
      /\ Len(hm_values.data[1][1]) = N
      /\ Len(sm_values.data[1][1]) = N
      /\ cpm_values.shape = <<1, M, N>>
      /\ Len(cpm_values.data) = 1
      /\ Len(cpm_values.data[1]) = M
      /\ \A j \in 1..M : Len(cpm_values.data[1][j]) = N
      /\ Len(temp_conds.T) = M

C7_Witness ==
  /\ pc = "datasets"
  /\ NumMatched = 2
  /\ cpm_values.shape = <<1, 2, 2>>
  /\ Len(temp_conds.T) = 2

\* C8: every dataset built carries the tag of the last item of
\* refstate_tags; a call with empty refstate_tags never builds a dataset,
\* never writes a file and never completes.
C8_TagOfLastReference ==
  /\ ds # <<>> =>
       /\ args.refstate_tags # <<>>
       /\ ds[1].tag = args.refstate_tags[Len(args.refstate_tags)][2]
  /\ \A f \in files :
       f.content.tag = args.refstate_tags[Len(args.refstate_tags)][2]
  /\ (Started /\ args.refstate_tags = <<>>) =>
       /\ pc \in {"refs", "records", "error"}
       /\ ds = <<>>
       /\ files = {}
       /\ ret = <<>>

C8_Witness ==
  /\ ds # <<>>
  /\ ds[1].output = "SM_FORM"
  /\ Len(args.refstate_tags) = 2
  /\ ds[1].tag = "ref_al"
  /\ NumMatched = 1
  /\ MatchedDoc(1).metadata.tag = "cfg"

\* C9: a call for which no record matches never builds a dataset, never
\* writes a file and never returns a value, whatever writefile is; it gets
\* no further than the end of the record loop, where it fails.
C9_NoMatchFails ==
  (Started /\ MatchPositions = {}) =>
     /\ pc \in {"refs", "records", "error"}
     /\ pc = "records" => cursor = <<>> /\ "fixed_temp" \notin bound
     /\ ds = <<>>
     /\ files = {}
     /\ ret = <<>>

C9_Witness ==
  /\ pc = "error"
  /\ MatchPositions = {}
  /\ args.writefile = "True"
  /\ Len(args.refstate_tags) = 1
  /\ DOMAIN refstate_energies = {"al"}
  /\ fixed_conds.P = Pressure
  /\ "fixed_temp" \notin bound
  /\ configs = <<>>

====
